---- MODULE Spec2Model ----
(***************************************************************************)
(* The free-page manager (freelist) of boltdb: freelist.go.                *)
(*                                                                         *)
(* The manager's fields are the variables; every method is an operator on  *)
(* a record of those fields, and every action applies one method.  A panic *)
(* ends the process: it is recorded in err, with the fields as the method  *)
(* had left them when it panicked, and no method runs afterwards.          *)
(***************************************************************************)
EXTENDS Integers, Sequences, FiniteSets, TLC

\* ------------------------------------------------------------------ bounds

MaxPgid == 4       \* page ids are 0 .. MaxPgid
MaxTxid == 2       \* writer txids are 1 .. MaxTxid, reader txids 0 .. MaxTxid
MaxOverflow == 1   \* a freed page has overflow 0 .. MaxOverflow
MaxAlloc == 2      \* allocate asks for 1 .. MaxAlloc pages

\* ------------------------------------------------------------------ constants

CountSentinel == 65535

\* common.PageHeaderSize and unsafe.Sizeof(common.Pgid(0)), in bytes
PageHeaderSize == 16

PgidSize == 8

Pgids == 0 .. MaxPgid
Txids == 0 .. MaxTxid
WriterTxids == 1 .. MaxTxid

\* ------------------------------------------------------------------ helpers

EmptyMap == [x \in {} |-> 0]

MapPut(m, k, v) == [x \in (DOMAIN m) \cup {k} |-> IF x = k THEN v ELSE m[x]]

MapDel(m, k) == [x \in (DOMAIN m) \ {k} |-> m[x]]

SeqRange(s) == {s[i] : i \in 1 .. Len(s)}

SetMin(S) == CHOOSE x \in S : \A y \in S : x <= y

RECURSIVE SetToSortedSeq(_)
SetToSortedSeq(S) ==
    IF S = {} THEN << >>
    ELSE LET m == SetMin(S) IN << m >> \o SetToSortedSeq(S \ {m})

\* the ids start, start+1, ..., start+size-1
Run(start, size) == [i \in 1 .. size |-> start + i - 1]

RECURSIVE Insert(_, _)
Insert(s, x) ==
    IF s = << >> THEN << x >>
    ELSE IF x < Head(s) THEN << x >> \o s
    ELSE << Head(s) >> \o Insert(Tail(s), x)

IsSorted(s) == \A i \in 1 .. Len(s) - 1 : s[i] <= s[i + 1]

\* sort.Sort(common.Pgids(...)): ascending, duplicates kept
RECURSIVE SortPgids(_)
SortPgids(s) ==
    IF IsSorted(s) THEN s ELSE Insert(SortPgids(Tail(s)), Head(s))

\* common.Mergepgids: the sorted merge of two sorted lists
RECURSIVE Mergepgids(_, _)
Mergepgids(a, b) ==
    IF a = << >> THEN b
    ELSE IF b = << >> THEN a
    ELSE IF Head(a) <= Head(b) THEN << Head(a) >> \o Mergepgids(Tail(a), b)
    ELSE << Head(b) >> \o Mergepgids(a, Tail(b))

RECURSIVE Concat(_, _)
Concat(ss, keys) ==
    IF keys = << >> THEN << >>
    ELSE ss[Head(keys)] \o Concat(ss, Tail(keys))

\* every ordering of a finite set: the orders in which Go may range over a map
Orders(S) ==
    {o \in [1 .. Cardinality(S) -> S] : \A i, j \in DOMAIN o : i # j => o[i] # o[j]}

\* ------------------------------------------------------------------ the manager

\* newFreelist: an empty, initialized freelist
newFreelist ==
    [allocs |-> EmptyMap,
     pending |-> EmptyMap,
     cache |-> {},
     freemaps |-> EmptyMap,
     forwardMap |-> EmptyMap,
     backwardMap |-> EmptyMap,
     freePagesCount |-> 0,
     err |-> "none"]

txPendingEmpty == [ids |-> << >>, alloctx |-> << >>]

Panic(f, kind) == [f EXCEPT !.err = kind]

\* ---- the span index (hashmap backend)

addSpan(f, start, size) ==
    [f EXCEPT !.backwardMap = MapPut(@, start - 1 + size, size),
              !.forwardMap = MapPut(@, start, size),
              !.freemaps = MapPut(@, size,
                      (IF size \in DOMAIN @ THEN @[size] ELSE {}) \cup {start}),
              !.freePagesCount = @ + size]

delSpan(f, start, size) ==
    [f EXCEPT !.forwardMap = MapDel(@, start),
              !.backwardMap = MapDel(@, start + size - 1),
              !.freemaps =
                  IF size \notin DOMAIN @ THEN @
                  ELSE IF @[size] \ {start} = {} THEN MapDel(@, size)
                  ELSE MapPut(@, size, @[size] \ {start}),
              !.freePagesCount = @ - size]

hashmapFreeCount(f) == f.freePagesCount

\* every id covered by a span, ascending
hashmapGetFreePageIDs(f) ==
    IF hashmapFreeCount(f) = 0 THEN << >>
    ELSE SortPgids(Concat([s \in DOMAIN f.forwardMap |-> Run(s, f.forwardMap[s])],
                          SetToSortedSeq(DOMAIN f.forwardMap)))

\* merge one id into the span index, coalescing with both neighbours
mergeWithExistingSpan(f, pid) ==
    LET prev == pid - 1
        next == pid + 1
        mergeWithPrev == prev \in DOMAIN f.backwardMap
        mergeWithNext == next \in DOMAIN f.forwardMap
        preSize == IF mergeWithPrev THEN f.backwardMap[prev] ELSE 0
        nextSize == IF mergeWithNext THEN f.forwardMap[next] ELSE 0
        f1 == IF mergeWithPrev THEN delSpan(f, prev + 1 - preSize, preSize) ELSE f
        f2 == IF mergeWithNext THEN delSpan(f1, next, nextSize) ELSE f1
    IN  [addSpan(f2, pid - preSize, 1 + preSize + nextSize)
            EXCEPT !.cache = @ \cup {pid}]

RECURSIVE hashmapMergeSpans(_, _)
hashmapMergeSpans(f, ids) ==
    IF ids = << >> THEN f
    ELSE hashmapMergeSpans(mergeWithExistingSpan(f, Head(ids)), Tail(ids))

\* the cache rebuilt from the free ids alone
reindexFreeOnly(f) == [f EXCEPT !.cache = SeqRange(hashmapGetFreePageIDs(f))]

\* reindex: rebuild the cache from the free ids and the pending ids
reindex(f) ==
    [f EXCEPT !.cache =
        SeqRange(hashmapGetFreePageIDs(f))
        \cup UNION {SeqRange(f.pending[t].ids) : t \in DOMAIN f.pending}]

\* install pgids as spans: consecutive ids of the list form one span
RECURSIVE initSpans(_, _, _, _)
initSpans(f, pgids, start, size) ==
    IF pgids = << >> THEN addSpan(f, start, size)
    ELSE IF Head(pgids) = start + size
         THEN initSpans(f, Tail(pgids), start, size + 1)
         ELSE initSpans(addSpan(f, start, size), Tail(pgids), Head(pgids), 1)

init(f, pgids) ==
    LET f0 == [f EXCEPT !.freemaps = EmptyMap,
                        !.forwardMap = EmptyMap,
                        !.backwardMap = EmptyMap,
                        !.freePagesCount = 0]
    IN  IF pgids = << >> THEN f0
        ELSE initSpans(f0, Tail(pgids), Head(pgids), 1)

hashmapReadIDs(f, pgids) == reindex(init(f, pgids))

\* allocate that takes, of the spans of the chosen size, the one that starts last
hashmapAllocateLastStart(f, txid, n) ==
    LET sizes == {m \in DOMAIN f.freemaps : m >= n /\ f.freemaps[m] # {}}
    IN  IF n = 0 \/ sizes = {} THEN [f |-> f, ret |-> 0]
        ELSE LET m == SetMin(sizes)
                 pid == CHOOSE x \in f.freemaps[m] : \A y \in f.freemaps[m] : y <= x
                 f1 == delSpan(f, pid, m)
                 f2 == IF m > n THEN addSpan(f1, pid + n, m - n) ELSE f1
             IN  [f |-> [f2 EXCEPT !.allocs = MapPut(@, pid, txid),
                                   !.cache = @ \ SeqRange(Run(pid, n))],
                  ret |-> pid]

\* allocate n contiguous pages: the smallest span size m >= n that has a span,
\* and of those spans the one with the smallest start; 0 when there is none
hashmapAllocate(f, txid, n) ==
    LET sizes == {m \in DOMAIN f.freemaps : m >= n /\ f.freemaps[m] # {}}
    IN  IF n = 0 \/ sizes = {} THEN [f |-> f, ret |-> 0]
        ELSE LET m == SetMin(sizes)
                 pid == SetMin(f.freemaps[m])
                 f1 == delSpan(f, pid, m)
                 f2 == IF m > n THEN addSpan(f1, pid + n, m - n) ELSE f1
             IN  [f |-> [f2 EXCEPT !.allocs = MapPut(@, pid, txid),
                                   !.cache = @ \ SeqRange(Run(pid, n))],
                  ret |-> pid]

\* ---- counts

\* the number of buckets, not of their ids
pending_countBuckets(f) == Cardinality(DOMAIN f.pending)

pending_count(f) ==
    LET RECURSIVE Sum(_)
        Sum(T) == IF T = {} THEN 0
                  ELSE LET t == CHOOSE x \in T : TRUE
                       IN  Len(f.pending[t].ids) + Sum(T \ {t})
    IN  Sum(DOMAIN f.pending)

count(f) == hashmapFreeCount(f) + pending_count(f)

\* size that leaves out the slot of the count
sizeOfIds(f) == PageHeaderSize + PgidSize * count(f)

\* size: the bytes of the page after serialization
size(f) ==
    LET n == count(f)
    IN  PageHeaderSize + PgidSize * (IF n >= CountSentinel THEN n + 1 ELSE n)

\* copyall: all free ids and all pending ids in one sorted list
copyall(f) ==
    Mergepgids(hashmapGetFreePageIDs(f),
               SortPgids(Concat([t \in DOMAIN f.pending |-> f.pending[t].ids],
                                SetToSortedSeq(DOMAIN f.pending))))

\* ---- free

\* the loop of free without the look-up in the cache
RECURSIVE freeLoopUnchecked(_, _, _, _, _)
freeLoopUnchecked(f, txid, allocTxid, id, last) ==
    IF id > last THEN f
    ELSE freeLoopUnchecked([f EXCEPT !.pending[txid].ids = Append(@, id),
                                     !.pending[txid].alloctx = Append(@, allocTxid),
                                     !.cache = @ \cup {id}],
                           txid, allocTxid, id + 1, last)

RECURSIVE freeLoop(_, _, _, _, _)
freeLoop(f, txid, allocTxid, id, last) ==
    IF id > last THEN f
    ELSE IF id \in f.cache THEN Panic(f, "DoubleFree")
    ELSE freeLoop([f EXCEPT !.pending[txid].ids = Append(@, id),
                            !.pending[txid].alloctx = Append(@, allocTxid),
                            !.cache = @ \cup {id}],
                  txid, allocTxid, id + 1, last)

\* free that leaves the page in allocs
freeKeepAllocs(f, verify_, txid, p) ==
    IF p.id <= 1 THEN Panic(f, "InvalidPageId")
    ELSE LET f1 == IF txid \in DOMAIN f.pending THEN f
                   ELSE [f EXCEPT !.pending = MapPut(@, txid, txPendingEmpty)]
             ok == p.id \in DOMAIN f.allocs
             allocTxid == IF ok THEN f.allocs[p.id] ELSE 0
         IN  IF verify_ /\ allocTxid = txid THEN Panic(f1, "SelfFree")
             ELSE freeLoop(f1, txid, allocTxid, p.id, p.id + p.overflow)

\* free that turns away page 0 only
freeFromOne(f, verify_, txid, p) ==
    IF p.id < 1 THEN Panic(f, "InvalidPageId")
    ELSE LET f1 == IF txid \in DOMAIN f.pending THEN f
                   ELSE [f EXCEPT !.pending = MapPut(@, txid, txPendingEmpty)]
             ok == p.id \in DOMAIN f.allocs
             allocTxid == IF ok THEN f.allocs[p.id] ELSE 0
         IN  IF verify_ /\ allocTxid = txid THEN Panic(f1, "SelfFree")
             ELSE freeLoop([f1 EXCEPT !.allocs = IF ok THEN MapDel(@, p.id) ELSE @],
                           txid, allocTxid, p.id, p.id + p.overflow)

\* free(txid, p) in a build that runs the common.Verify checks (verify_) or not
free(f, verify_, txid, p) ==
    IF p.id <= 1 THEN Panic(f, "InvalidPageId")
    ELSE LET f1 == IF txid \in DOMAIN f.pending THEN f
                   ELSE [f EXCEPT !.pending = MapPut(@, txid, txPendingEmpty)]
             ok == p.id \in DOMAIN f.allocs
             allocTxid == IF ok THEN f.allocs[p.id] ELSE 0
         IN  IF verify_ /\ allocTxid = txid THEN Panic(f1, "SelfFree")
             ELSE freeLoop([f1 EXCEPT !.allocs = IF ok THEN MapDel(@, p.id) ELSE @],
                           txid, allocTxid, p.id, p.id + p.overflow)

\* ---- release

\* the visibility test with the allocating transaction's own snapshot left out
safe2ReleaseStrict(atxid, ftxid, rtxids) ==
    ~ \E rtxid \in rtxids : atxid < rtxid /\ rtxid < ftxid

safe2Release(atxid, ftxid, rtxids) ==
    ~ \E rtxid \in rtxids : atxid <= rtxid /\ rtxid < ftxid

\* the loop over one bucket: a safe entry is replaced by the last entry of the
\* bucket and the same index is examined again
RECURSIVE releaseBucket(_, _, _, _, _)
releaseBucket(txp, ftxid, rtxids, i, m) ==
    IF i > Len(txp.ids) THEN [txp |-> txp, m |-> m]
    ELSE IF safe2Release(txp.alloctx[i], ftxid, rtxids)
         THEN LET n == Len(txp.ids)
              IN  releaseBucket(
                      [ids |-> SubSeq([txp.ids EXCEPT ![i] = txp.ids[n]], 1, n - 1),
                       alloctx |-> SubSeq([txp.alloctx EXCEPT ![i] = txp.alloctx[n]],
                                          1, n - 1)],
                      ftxid, rtxids, i, Append(m, txp.ids[i]))
         ELSE releaseBucket(txp, ftxid, rtxids, i + 1, m)

RECURSIVE releaseLoop(_, _, _, _)
releaseLoop(pending, rtxids, order, m) ==
    IF order = << >> THEN [pending |-> pending, m |-> m]
    ELSE LET ftxid == Head(order)
             r == releaseBucket(pending[ftxid], ftxid, rtxids, 1, m)
         IN  releaseLoop(IF r.txp.ids = << >> THEN MapDel(pending, ftxid)
                         ELSE MapPut(pending, ftxid, r.txp),
                         rtxids, Tail(order), r.m)

\* release that makes of every released id a span of its own
releaseUnmerged(f, rtxids, order) ==
    LET r == releaseLoop(f.pending, rtxids, order, << >>)
        RECURSIVE addEach(_, _)
        addEach(g, ids) ==
            IF ids = << >> THEN g ELSE addEach(addSpan(g, Head(ids), 1), Tail(ids))
    IN  addEach([f EXCEPT !.pending = r.pending], r.m)

\* release that merges the first released id alone
releaseFirstOnly(f, rtxids, order) ==
    LET r == releaseLoop(f.pending, rtxids, order, << >>)
    IN  hashmapMergeSpans([f EXCEPT !.pending = r.pending],
                          IF r.m = << >> THEN << >> ELSE << Head(r.m) >>)

\* release that takes every entry for safe
releaseUnfiltered(f, rtxids, order) ==
    LET r == releaseLoop(f.pending, {}, order, << >>)
    IN  hashmapMergeSpans([f EXCEPT !.pending = r.pending], r.m)

\* release(rtxids), ranging over the pending map in the given order of its keys
release(f, rtxids, order) ==
    LET r == releaseLoop(f.pending, rtxids, order, << >>)
    IN  hashmapMergeSpans([f EXCEPT !.pending = r.pending], r.m)

\* ---- rollback

\* the loop of rollback that restores the allocator of every entry, the
\* rolling-back transaction included
RECURSIVE rollbackLoopNoPanic(_, _, _, _)
rollbackLoopNoPanic(f, txid, txp, i) ==
    IF i > Len(txp.ids) THEN [f EXCEPT !.pending = MapDel(@, txid)]
    ELSE LET pgid == txp.ids[i]
             tx == txp.alloctx[i]
             f1 == [f EXCEPT !.cache = @ \ {pgid}]
         IN  IF tx = 0 THEN rollbackLoopNoPanic(f1, txid, txp, i + 1)
             ELSE rollbackLoopNoPanic([f1 EXCEPT !.allocs = MapPut(@, pgid, tx)],
                                      txid, txp, i + 1)

RECURSIVE rollbackLoop(_, _, _, _)
rollbackLoop(f, txid, txp, i) ==
    IF i > Len(txp.ids) THEN [f EXCEPT !.pending = MapDel(@, txid)]
    ELSE LET pgid == txp.ids[i]
             tx == txp.alloctx[i]
             f1 == [f EXCEPT !.cache = @ \ {pgid}]
         IN  IF tx = 0 THEN rollbackLoop(f1, txid, txp, i + 1)
             ELSE IF tx # txid
                  THEN rollbackLoop([f1 EXCEPT !.allocs = MapPut(@, pgid, tx)],
                                    txid, txp, i + 1)
                  ELSE Panic(f1, "SelfFree")

\* rollback that drops the bucket and restores no allocator
rollbackNoRestore(f, txid) ==
    IF txid \notin DOMAIN f.pending THEN f
    ELSE [f EXCEPT !.cache = @ \ SeqRange(f.pending[txid].ids),
                   !.pending = MapDel(@, txid)]

rollback(f, txid) ==
    IF txid \notin DOMAIN f.pending THEN f
    ELSE rollbackLoop(f, txid, f.pending[txid], 1)

freed(f, pgId) == pgId \in f.cache

\* ---- the freelist page

IsFreelistPage(p) == p.flags = "freelist"

\* the ids a freelist page stores: count of them in the header, or, when the
\* header holds the sentinel, in the first slot of the array
FreelistPageIds(p) ==
    IF p.count = CountSentinel
    THEN IF p.ids[1] = 0 THEN << >> ELSE SubSeq(p.ids, 2, p.ids[1] + 1)
    ELSE IF p.count = 0 THEN << >> ELSE SubSeq(p.ids, 1, p.count)

read(f, p) ==
    IF ~ IsFreelistPage(p) THEN Panic(f, "MalformedPage")
    ELSE LET ids == FreelistPageIds(p)
         IN  IF Len(ids) = 0 THEN f
             ELSE hashmapReadIDs(f, SortPgids(ids))

\* the page written with the free ids alone
writeFreeOnly(f, p) ==
    LET l == hashmapFreeCount(f)
    IN  [flags |-> "freelist", count |-> l, ids |-> hashmapGetFreePageIDs(f)]

\* write: the page as the header describes it (flags, count, the id array)
write(f, p) ==
    LET l == count(f)
    IN  IF l = 0 THEN [flags |-> "freelist", count |-> 0, ids |-> << >>]
        ELSE IF l < CountSentinel
        THEN [flags |-> "freelist", count |-> l, ids |-> copyall(f)]
        ELSE [flags |-> "freelist", count |-> CountSentinel,
              ids |-> << l >> \o copyall(f)]

pendingIDs(f) == UNION {SeqRange(f.pending[t].ids) : t \in DOMAIN f.pending}

\* the ids of a list that are not pending, in the order of the list
filterPending(f, ids) == SelectSeq(ids, LAMBDA id : id \notin pendingIDs(f))

reload(f, p) ==
    LET f1 == read(f, p)
    IN  IF f1.err # "none" THEN f1
        ELSE hashmapReadIDs(f1, filterPending(f1, hashmapGetFreePageIDs(f1)))

\* noSyncReload that installs the list as it is
noSyncReloadUnfiltered(f, Pgids_) == hashmapReadIDs(f, Pgids_)

noSyncReload(f, Pgids_) == hashmapReadIDs(f, filterPending(f, Pgids_))

\* ------------------------------------------------------------------ state

VARIABLES
    allocs,          \* f.allocs: page id -> txid that allocated it
    pending,         \* f.pending: writer txid -> txPending (ids, alloctx)
    cache,           \* f.cache: the ids that are free or pending
    freemaps,        \* f.freemaps: span size -> set of span starts
    forwardMap,      \* f.forwardMap: span start -> span size
    backwardMap,     \* f.backwardMap: span end -> span size
    freePagesCount,  \* f.freePagesCount
    err,             \* "none", or the panic that ended the process
    verify,          \* whether the build runs the common.Verify checks
    readers,         \* the txids of the open read-only transactions
    page             \* the freelist page of the database file

vars == << allocs, pending, cache, freemaps, forwardMap, backwardMap,
           freePagesCount, err, verify, readers, page >>

\* the manager as one record
cur ==
    [allocs |-> allocs,
     pending |-> pending,
     cache |-> cache,
     freemaps |-> freemaps,
     forwardMap |-> forwardMap,
     backwardMap |-> backwardMap,
     freePagesCount |-> freePagesCount,
     err |-> err]

Set(f) ==
    /\ allocs' = f.allocs
    /\ pending' = f.pending
    /\ cache' = f.cache
    /\ freemaps' = f.freemaps
    /\ forwardMap' = f.forwardMap
    /\ backwardMap' = f.backwardMap
    /\ freePagesCount' = f.freePagesCount
    /\ err' = f.err

\* ------------------------------------------------------------------ inputs

\* the pages a caller frees: an id and an overflow count within the file
FreePages ==
    {p \in [id : Pgids, overflow : 0 .. MaxOverflow] : p.id + p.overflow <= MaxPgid}

\* id lists that may hold the meta page 1
IdListsFromOne == {SetToSortedSeq(S) : S \in SUBSET (1 .. MaxPgid)}

\* the id lists a caller holds: distinct page ids above the meta pages, ascending
IdLists == {SetToSortedSeq(S) : S \in SUBSET (2 .. MaxPgid)}

Reverse(s) == [i \in 1 .. Len(s) |-> s[Len(s) + 1 - i]]

\* the pages a caller reads: freelist pages that store such a list, in
\* ascending order as write stores it or in descending order, and a page of
\* another type
InputPages ==
    {[flags |-> "freelist", count |-> Len(s), ids |-> s] :
        s \in IdLists \cup {Reverse(l) : l \in IdLists}}
    \cup {[flags |-> "leaf", count |-> 0, ids |-> << >>]}

\* ------------------------------------------------------------------ actions

Init ==
    /\ allocs = newFreelist.allocs
    /\ pending = newFreelist.pending
    /\ cache = newFreelist.cache
    /\ freemaps = newFreelist.freemaps
    /\ forwardMap = newFreelist.forwardMap
    /\ backwardMap = newFreelist.backwardMap
    /\ freePagesCount = newFreelist.freePagesCount
    /\ err = newFreelist.err
    /\ verify \in BOOLEAN
    /\ readers = {}
    /\ page = [flags |-> "freelist", count |-> 0, ids |-> << >>]

Allocate ==
    /\ err = "none"
    /\ \E txid \in WriterTxids, n \in 1 .. MaxAlloc :
           Set(hashmapAllocate(cur, txid, n).f)
    /\ UNCHANGED << verify, readers, page >>

Free ==
    /\ err = "none"
    /\ \E txid \in WriterTxids, p \in FreePages : Set(free(cur, verify, txid, p))
    /\ UNCHANGED << verify, readers, page >>

\* release is passed any list of reader txids
Release ==
    /\ err = "none"
    /\ \E rtxids \in SUBSET Txids, order \in Orders(DOMAIN pending) :
           Set(release(cur, rtxids, order))
    /\ UNCHANGED << verify, readers, page >>

\* release is passed the txids of the read-only transactions open now
ReleaseOpen ==
    /\ err = "none"
    /\ \E order \in Orders(DOMAIN pending) : Set(release(cur, readers, order))
    /\ UNCHANGED << verify, readers, page >>

Rollback ==
    /\ err = "none"
    /\ \E txid \in WriterTxids : Set(rollback(cur, txid))
    /\ UNCHANGED << verify, readers, page >>

Reload ==
    /\ err = "none"
    /\ \E p \in InputPages \cup {page} : Set(reload(cur, p))
    /\ UNCHANGED << verify, readers, page >>

NoSyncReload ==
    /\ err = "none"
    /\ \E ids \in IdLists : Set(noSyncReload(cur, ids))
    /\ UNCHANGED << verify, readers, page >>

Reindex ==
    /\ err = "none"
    /\ Set(reindex(cur))
    /\ UNCHANGED << verify, readers, page >>

Write ==
    /\ err = "none"
    /\ page' = write(cur, page)
    /\ UNCHANGED << allocs, pending, cache, freemaps, forwardMap, backwardMap,
                    freePagesCount, err, verify, readers >>

\* the database is opened again, after a crash or a close: a fresh manager
\* reads the freelist page of the file; no reader survives
Open ==
    /\ Set(read(newFreelist, page))
    /\ readers' = {}
    /\ UNCHANGED << verify, page >>

\* a read-only transaction begins or ends
OpenReader ==
    /\ err = "none"
    /\ \E r \in Txids \ readers : readers' = readers \cup {r}
    /\ UNCHANGED << allocs, pending, cache, freemaps, forwardMap, backwardMap,
                    freePagesCount, err, verify, page >>

CloseReader ==
    /\ err = "none"
    /\ \E r \in readers : readers' = readers \ {r}
    /\ UNCHANGED << allocs, pending, cache, freemaps, forwardMap, backwardMap,
                    freePagesCount, err, verify, page >>

Next ==
    \/ Allocate
    \/ Free
    \/ Release
    \/ Rollback
    \/ Reload
    \/ NoSyncReload
    \/ Reindex
    \/ Write
    \/ Open

Spec == Init /\ [][Next]_vars

\* the writer's calls between two loads of the freelist, with the read-only
\* transactions that begin and end meanwhile
NextCore ==
    \/ Allocate
    \/ Free
    \/ ReleaseOpen
    \/ Rollback
    \/ OpenReader
    \/ CloseReader

SpecCore == Init /\ [][NextCore]_vars

\* ---- write and size on a large freelist

\* a manager that holds, beside free and pending ids among 2 .. MaxPgid, one
\* span of big ids that starts above MaxPgid (big = 0: no such span); tx[id]
\* is 0 for an id that is not pending and else the writer of its bucket
largeFreelist(big, fr, tx) ==
    LET f0 == IF big = 0 THEN newFreelist ELSE addSpan(newFreelist, MaxPgid + 1, big)
        f1 == hashmapMergeSpans(f0, SetToSortedSeq(fr))
        bucket(t) == SetToSortedSeq({id \in DOMAIN tx : tx[id] = t})
        writers == {t \in WriterTxids : bucket(t) # << >>}
    IN  [f1 EXCEPT !.pending = [t \in writers |->
                                   [ids |-> bucket(t),
                                    alloctx |-> [i \in 1 .. Len(bucket(t)) |-> 0]]],
                   !.cache = (MaxPgid + 1 .. MaxPgid + big) \cup fr
                             \cup {id \in DOMAIN tx : tx[id] # 0}]

\* the sizes of the big span: none, or one short of the sentinel count
BigSizes == {0, CountSentinel - 1}

InitLarge ==
    /\ \E big \in BigSizes, fr \in SUBSET (2 .. MaxPgid) :
           \E tx \in [(2 .. MaxPgid) \ fr -> Txids] :
               LET f == largeFreelist(big, fr, tx)
               IN  /\ allocs = f.allocs
                   /\ pending = f.pending
                   /\ cache = f.cache
                   /\ freemaps = f.freemaps
                   /\ forwardMap = f.forwardMap
                   /\ backwardMap = f.backwardMap
                   /\ freePagesCount = f.freePagesCount
                   /\ err = f.err
    /\ verify = FALSE
    /\ readers = {}
    /\ page = [flags |-> "freelist", count |-> 0, ids |-> << >>]

NextLarge == Write

SpecLarge == InitLarge /\ [][NextLarge]_vars

\* ------------------------------------------------------------------ properties

\* the ids the spans of f cover
FreeIdsOf(f) == UNION {s .. s + f.forwardMap[s] - 1 : s \in DOMAIN f.forwardMap}

FreeIds == FreeIdsOf(cur)

PendingIds == pendingIDs(cur)

\* the indexes of the entries of bucket t of f
EntriesOf(f, t) == IF t \in DOMAIN f.pending THEN 1 .. Len(f.pending[t].ids) ELSE {}

\* bucket t of f holds the entry {id, a}
HasEntry(f, t, id, a) ==
    \E j \in EntriesOf(f, t) : f.pending[t].ids[j] = id /\ f.pending[t].alloctx[j] = a

\* a reader of rtxids sees a page allocated by a and freed by ftxid
Visible(a, ftxid, rtxids) == \E r \in rtxids : a <= r /\ r < ftxid

\* the pending ids of f that some reader of rtxids still sees
VisibleIds(f, rtxids) ==
    UNION {{f.pending[t].ids[j] :
                j \in {k \in EntriesOf(f, t) :
                          Visible(f.pending[t].alloctx[k], t, rtxids)}} :
           t \in DOMAIN f.pending}

\* C1: release(rtxids) moves the pending entry {id, a} of writer f into the
\* spans exactly when no reader r of rtxids has a <= r < f; every other entry
\* stays in pending[f] with its allocator a, for every bucket, every list of
\* readers and every order in which the buckets are visited.
ReleaseMovesExactlyTheSafe ==
    err = "none" =>
        \A rtxids \in SUBSET Txids, order \in Orders(DOMAIN pending) :
            LET g == release(cur, rtxids, order)
            IN  \A t \in DOMAIN pending : \A i \in EntriesOf(cur, t) :
                    LET id == pending[t].ids[i]
                        a == pending[t].alloctx[i]
                    IN  IF Visible(a, t, rtxids)
                        THEN /\ HasEntry(g, t, id, a)
                             /\ id \notin FreeIdsOf(g)
                        ELSE /\ id \in FreeIdsOf(g)
                             /\ id \notin pendingIDs(g)

\* beside free spans, a bucket holds an entry of unknown allocator that reader 0
\* sees and an entry of known allocator that reader 0 does not see
ReleaseWitness ==
    /\ err = "none"
    /\ FreeIds # {}
    /\ \E t \in DOMAIN pending : \E i, j \in EntriesOf(cur, t) :
           /\ pending[t].alloctx[i] = 0
           /\ Visible(0, t, {0})
           /\ pending[t].alloctx[j] # 0
           /\ ~ Visible(pending[t].alloctx[j], t, {0})

\* C2: while the readers open now include one that sees a pending id, no step
\* hands that id out or makes it free; the ids a step takes out of the spans
\* are not pending before or after it, and the ids a step adds to the spans
\* were pending and seen by no open reader.
NoReuseWhileVisible ==
    [][/\ VisibleIds(cur, readers) \cap FreeIds' = {}
       /\ (FreeIds \ FreeIds') \cap (PendingIds \cup PendingIds') = {}
       /\ (FreeIds' \ FreeIds) \subseteq (PendingIds \ VisibleIds(cur, readers))]_vars

\* a page allocated from released ids is pending again under a later writer
\* while a reader that sees it is open, beside ids that are free
NoReuseWitness ==
    /\ err = "none"
    /\ FreeIds # {}
    /\ \E t \in DOMAIN pending : \E i \in EntriesOf(cur, t) :
           /\ pending[t].alloctx[i] # 0
           /\ pending[t].ids[i] \in VisibleIds(cur, readers)

\* the spans of f are the maximal runs of the ids they cover
Coalesced(f) ==
    \A s \in DOMAIN f.forwardMap :
        /\ s - 1 \notin FreeIdsOf(f)
        /\ s + f.forwardMap[s] \notin FreeIdsOf(f)
        /\ \A s2 \in DOMAIN f.forwardMap :
               s2 # s => SeqRange(Run(s, f.forwardMap[s]))
                         \cap SeqRange(Run(s2, f.forwardMap[s2])) = {}

SameSpans(f, g) ==
    /\ f.forwardMap = g.forwardMap
    /\ f.backwardMap = g.backwardMap
    /\ f.freemaps = g.freemaps
    /\ f.freePagesCount = g.freePagesCount

\* C3: a fresh manager that reads the page the manager writes holds as free
\* ids exactly the manager's free and pending ids, in maximal spans, and no
\* pending entry; when the manager has no pending entry it holds the same
\* spans as the manager.
WriteReadRoundTrip ==
    err = "none" =>
        LET g == read(newFreelist, write(cur, page))
        IN  /\ g.err = "none"
            /\ FreeIdsOf(g) = FreeIds \cup PendingIds
            /\ Coalesced(g)
            /\ g.freePagesCount = Cardinality(FreeIds \cup PendingIds)
            /\ g.pending = EmptyMap
            /\ (pending = EmptyMap => SameSpans(g, cur))

\* the file's page is the one written from this state, which has free spans
\* and a pending id next to one of them
RoundTripWitness ==
    /\ err = "none"
    /\ page = write(cur, page)
    /\ FreeIds # {}
    /\ \E id \in PendingIds : id - 1 \in FreeIds \/ id + 1 \in FreeIds

\* C4: after every call returns, the cache holds exactly the ids the spans
\* cover and the ids of all pending buckets, so freed(id) tells whether id is
\* free or pending.
CacheIsFreeAndPending ==
    err = "none" =>
        /\ cache = FreeIds \cup PendingIds
        /\ \A id \in Pgids : freed(cur, id) <=> (id \in FreeIds \/ id \in PendingIds)

\* free, pending and allocated ids at once
CacheWitness ==
    /\ err = "none"
    /\ FreeIds # {}
    /\ PendingIds # {}
    /\ DOMAIN allocs # {}
    /\ cache = FreeIds \cup PendingIds

\* the ids of the page p
PageIds(p) == p.id .. p.id + p.overflow

\* no id is pending twice, and no pending id is free
PendingOnce(f) ==
    /\ pending_count(f) = Cardinality(pendingIDs(f))
    /\ pendingIDs(f) \cap FreeIdsOf(f) = {}

\* C5 as stated: every page id is in at most one of the spans, the pending
\* buckets (once over all of them) and the keys of allocs.
EachIdInOnePlace ==
    err = "none" =>
        /\ PendingOnce(cur)
        /\ FreeIds \cap DOMAIN allocs = {}
        /\ PendingIds \cap DOMAIN allocs = {}

\* C5, amended: every page id is in at most one of the spans and the pending
\* buckets (once over all of them); a key of allocs may be free or pending too.
EachIdFreeOrPendingOnce == err = "none" => PendingOnce(cur)

\* a span beside a bucket of two ids, one of them a key of allocs
OnePlaceWitness ==
    /\ err = "none"
    /\ FreeIds # {}
    /\ \E t \in DOMAIN pending :
           /\ Len(pending[t].ids) = 2
           /\ SeqRange(pending[t].ids) \cap DOMAIN allocs # {}

\* C6 as stated: free(tx, p) of a page whose first id was allocated by another
\* transaction, followed by rollback(tx), leaves the manager as it was.
RollbackUndoesFree ==
    err = "none" =>
        \A tx \in WriterTxids, p \in FreePages :
            LET g == free(cur, verify, tx, p)
            IN  (/\ p.id \in DOMAIN allocs
                 /\ allocs[p.id] # tx
                 /\ tx \notin DOMAIN pending
                 /\ g.err = "none") => rollback(g, tx) = cur

\* C6, amended: when tx has no pending bucket, free(tx, p) of a page whose
\* first id was allocated by another transaction a, followed by rollback(tx),
\* leaves the manager as it was but for allocs, which maps every id of p to a:
\* with overflow 0 the manager is exactly as before, with overflow k > 0 the k
\* overflow ids are keys of allocs as well.
RollbackRestoresEveryId ==
    err = "none" =>
        \A tx \in WriterTxids, p \in FreePages :
            LET g == free(cur, verify, tx, p)
            IN  (/\ p.id \in DOMAIN allocs
                 /\ allocs[p.id] # tx
                 /\ tx \notin DOMAIN pending
                 /\ g.err = "none") =>
                    rollback(g, tx) =
                        [cur EXCEPT !.allocs =
                            [id \in DOMAIN allocs \cup PageIds(p) |->
                                IF id \in PageIds(p) THEN allocs[p.id] ELSE allocs[id]]]

\* a page of two ids allocated by transaction 1 that transaction 2, which has
\* no bucket, can free, beside a pending id
RollbackWitness ==
    /\ err = "none"
    /\ \E id \in DOMAIN allocs :
           /\ allocs[id] = 1
           /\ {id, id + 1} \cap cache = {}
           /\ id + 1 \in Pgids \ DOMAIN allocs
    /\ 2 \notin DOMAIN pending
    /\ PendingIds # {}

\* C7 as stated: free fails with DoubleFree exactly when an id of the page is
\* in the cache.
DoubleFreeIffCached ==
    err = "none" =>
        \A tx \in WriterTxids, p \in FreePages :
            free(cur, verify, tx, p).err = "DoubleFree" <=> PageIds(p) \cap cache # {}

\* C7, amended: free of a page with id > 1 that is not stopped by the
\* verification of a self-free fails with DoubleFree exactly when an id of the
\* page is in the cache; free of any page fails with DoubleFree only then; and
\* no id is ever pending twice or pending and free.
DoubleFreeIffCachedPastChecks ==
    /\ PendingOnce(cur)
    /\ err = "none" =>
        \A tx \in WriterTxids, p \in FreePages :
            LET g == free(cur, verify, tx, p)
                stopped == \/ p.id <= 1
                           \/ verify /\ p.id \in DOMAIN allocs /\ allocs[p.id] = tx
            IN  /\ g.err = "DoubleFree" => PageIds(p) \cap cache # {}
                /\ ~ stopped => (g.err = "DoubleFree" <=> PageIds(p) \cap cache # {})
                /\ stopped => g.err \in {"InvalidPageId", "SelfFree"}

\* free has panicked on the second id of a page, with the first id recorded
DoubleFreeWitness ==
    /\ err = "DoubleFree"
    /\ \E t \in DOMAIN pending : \E i \in EntriesOf(cur, t) :
           pending[t].ids[i] + 1 \in cache

\* C8: free of page 0 or 1 panics with InvalidPageId and leaves every field of
\* the manager as it was, the bucket of tx included; no id <= 1 is ever in the
\* pending table or the cache.
InvalidPageIdChangesNothing ==
    /\ \A id \in PendingIds \cup cache : id > 1
    /\ err = "none" =>
        \A tx \in WriterTxids, p \in FreePages :
            p.id <= 1 => free(cur, verify, tx, p) = Panic(cur, "InvalidPageId")

\* free has panicked on page 0 or 1 in a manager that holds pending and free ids
InvalidPageIdWitness ==
    /\ err = "InvalidPageId"
    /\ PendingIds # {}
    /\ FreeIds # {}

\* C9 as stated: no call of free returns with an entry in pending[tx] whose
\* allocator is tx itself.
SelfFreeRefused ==
    err = "none" =>
        \A t \in DOMAIN pending : \A i \in EntriesOf(cur, t) : pending[t].alloctx[i] # t

\* C10 as stated: reload of any freelist page keeps the pending table, makes
\* the free ids the ids of the page that are not pending, and the cache those
\* and the pending ids.
ReloadInstallsPage ==
    err = "none" =>
        \A p \in InputPages :
            IsFreelistPage(p) =>
                LET g == reload(cur, p)
                IN  /\ g.err = "none"
                    /\ g.pending = pending
                    /\ FreeIdsOf(g) = SeqRange(FreelistPageIds(p)) \ PendingIds
                    /\ g.cache = FreeIdsOf(g) \cup PendingIds

\* C11 as stated: read of any freelist page, whatever spans the manager held,
\* makes the free ids exactly the ids the page stores, in maximal spans; read
\* of a page of another type panics.
ReadInstallsPage ==
    err = "none" =>
        \A p \in InputPages :
            LET g == read(cur, p)
            IN  IF IsFreelistPage(p)
                THEN /\ g.err = "none"
                     /\ FreeIdsOf(g) = SeqRange(FreelistPageIds(p))
                     /\ Coalesced(g)
                ELSE g.err = "MalformedPage"

\* a span of f covers id
InSpan(f, id) ==
    \E s \in DOMAIN f.forwardMap : s <= id /\ id < s + f.forwardMap[s]

\* the ids a written page stores after the slot of the count, if it has one
StoredIds(w) == IF w.count = CountSentinel THEN Tail(w.ids) ELSE w.ids

\* C12: with L = count(), write sets the header count to L and writes L slots
\* when L < 0xFFFF (none when L = 0), and sets it to 0xFFFF and writes L + 1
\* slots, the first holding L, when L >= 0xFFFF; the ids written ascend
\* strictly, each is free or pending, and they are as many as the distinct free
\* and pending ids, so they are those ids each once; size() is the header and
\* eight bytes for every slot written.
WriteFillsSize ==
    err = "none" =>
        LET l == count(cur)
            w == write(cur, page)
            ids == StoredIds(w)
        IN  /\ w.flags = "freelist"
            /\ l < CountSentinel => w.count = l /\ Len(w.ids) = l
            /\ l >= CountSentinel =>
                   w.count = CountSentinel /\ Len(w.ids) = l + 1 /\ w.ids[1] = l
            /\ Len(ids) = l
            /\ \A i \in 1 .. l - 1 : ids[i] < ids[i + 1]
            /\ \A i \in 1 .. l : InSpan(cur, ids[i]) \/ ids[i] \in PendingIds
            /\ Cardinality(FreeIds \cup PendingIds) = l
            /\ size(cur) = PageHeaderSize + PgidSize * Len(w.ids)

\* the page written from a manager of exactly 0xFFFF ids, some of them pending
WriteSentinelWitness ==
    /\ err = "none"
    /\ count(cur) = CountSentinel
    /\ PendingIds # {}
    /\ page = write(cur, page)
    /\ page.count = CountSentinel

\* the spans of f as pairs (start, size)
SpansOf(f) == {<< s, f.forwardMap[s] >> : s \in DOMAIN f.forwardMap}

\* the three span structures of f hold the same spans
IndexAgrees(f) ==
    /\ \A s \in DOMAIN f.forwardMap :
           LET n == f.forwardMap[s]
           IN  /\ s + n - 1 \in DOMAIN f.backwardMap
               /\ f.backwardMap[s + n - 1] = n
               /\ n \in DOMAIN f.freemaps
               /\ s \in f.freemaps[n]
    /\ \A e \in DOMAIN f.backwardMap :
           LET n == f.backwardMap[e]
           IN  /\ e - n + 1 \in DOMAIN f.forwardMap
               /\ f.forwardMap[e - n + 1] = n
    /\ \A n \in DOMAIN f.freemaps : \A s \in f.freemaps[n] :
           /\ s \in DOMAIN f.forwardMap
           /\ f.forwardMap[s] = n

AllocateZeroIffNoFit ==
    /\ \A id \in FreeIds : id > 1
    /\ err = "none" =>
        \A tx \in WriterTxids, n \in 1 .. MaxAlloc :
            LET r == hashmapAllocate(cur, tx, n)
            IN  /\ r.ret = 0 <=> ~ \E sp \in SpansOf(cur) : sp[2] >= n
                /\ r.ret = 0 => r.f = cur
                /\ r.ret # 0 => r.ret > 1

\* free pages enough for the request, yet no span long enough, beside a
\* pending id
ExhaustedWitness ==
    /\ err = "none"
    /\ freePagesCount >= MaxAlloc
    /\ hashmapAllocate(cur, 1, MaxAlloc).ret = 0
    /\ PendingIds # {}

\* C15: in every state no two spans overlap and no two spans are adjacent,
\* every span being a maximal run of free ids, and the three span structures
\* agree: start_to_size[s] = n iff end_to_size[s+n-1] = n iff s is in
\* spans_by_size[n].
SpansCoalescedAndAgree ==
    /\ Coalesced(cur)
    /\ IndexAgrees(cur)
    /\ \A n \in DOMAIN freemaps : n >= 1 /\ freemaps[n] # {}

\* a span of two ids, one of which a writer had allocated, beside a pending id
CoalescedWitness ==
    /\ err = "none"
    /\ PendingIds # {}
    /\ \E s \in DOMAIN forwardMap :
           /\ forwardMap[s] = 2
           /\ \E id \in {s, s + 1} : id \in DOMAIN allocs

FreeAppendsPageIds ==
    /\ \A id \in DOMAIN allocs : allocs[id] # 0
    /\ err = "none" =>
        \A tx \in WriterTxids, p \in FreePages :
            LET g == free(cur, verify, tx, p)
                a == IF p.id \in DOMAIN allocs THEN allocs[p.id] ELSE 0
                old == IF tx \in DOMAIN pending THEN pending[tx] ELSE txPendingEmpty
            IN  g.err = "none" =>
                    /\ DOMAIN g.pending = DOMAIN pending \cup {tx}
                    /\ g.pending[tx].ids =
                           old.ids \o [i \in 1 .. p.overflow + 1 |-> p.id + i - 1]
                    /\ g.pending[tx].alloctx =
                           old.alloctx \o [i \in 1 .. p.overflow + 1 |-> a]
                    /\ \A t \in DOMAIN pending \ {tx} : g.pending[t] = pending[t]
                    /\ g.allocs = [id \in DOMAIN allocs \ {p.id} |-> allocs[id]]
                    /\ g.cache = cache \cup PageIds(p)
                    /\ SameSpans(g, cur)
                    /\ a = 0 <=> p.id \notin DOMAIN allocs

\* a bucket holds, after the entry of an earlier free, the two ids of a page
\* that another writer allocated, both with that writer as allocator
FreeOverflowWitness ==
    /\ err = "none"
    /\ \E t \in DOMAIN pending :
           /\ Len(pending[t].ids) = 3
           /\ pending[t].ids[3] = pending[t].ids[2] + 1
           /\ pending[t].alloctx[2] \notin {0, t}
           /\ pending[t].alloctx[3] = pending[t].alloctx[2]

\* the freelist page that stores the list ids
PageOf(ids) == [flags |-> "freelist", count |-> Len(ids), ids |-> ids]

\* C18 as stated: for every id list, the empty list and a descending list
\* included, noSyncReload(ids) and reload of a page that stores ids leave the
\* same spans, the same cache and the same, unchanged, pending table.
NoSyncReloadIsReload ==
    err = "none" =>
        \A ids \in IdLists \cup {Reverse(l) : l \in IdLists} :
            LET g == reload(cur, PageOf(ids))
                h == noSyncReload(cur, ids)
            IN  /\ SameSpans(g, h)
                /\ g.cache = h.cache
                /\ g.pending = pending
                /\ h.pending = pending

\* the ids a batch is drawn from
MergeIds == 2 .. MaxPgid + 1

\* C19: for every batch of distinct ids that no span covers, merge in every
\* order gives the same span index: the maximal runs of the old free ids and
\* the batch, the three structures agreeing, with free_count raised by the
\* size of the batch and every id of the batch in the cache; merge of the empty
\* batch changes nothing; and release of all pending ids, whatever the order of
\* the buckets, leaves the maximal runs of the free and the pending ids.
MergeAnyOrder ==
    err = "none" =>
        /\ hashmapMergeSpans(cur, << >>) = cur
        /\ \A B \in SUBSET (MergeIds \ FreeIds) :
               \A o \in Orders(B) :
                   LET g == hashmapMergeSpans(cur, o)
                   IN  /\ FreeIdsOf(g) = FreeIds \cup B
                       /\ Coalesced(g)
                       /\ IndexAgrees(g)
                       /\ g.freePagesCount = freePagesCount + Cardinality(B)
                       /\ B \subseteq g.cache
                       /\ SameSpans(g, hashmapMergeSpans(cur, SetToSortedSeq(B)))
        /\ \A order \in Orders(DOMAIN pending) :
               LET g == release(cur, {}, order)
               IN  /\ FreeIdsOf(g) = FreeIds \cup PendingIds
                   /\ Coalesced(g)
                   /\ IndexAgrees(g)
                   /\ g.freePagesCount = freePagesCount + Cardinality(PendingIds)

\* two pending ids, in the buckets of two writers, on both sides of a span
MergeBridgeWitness ==
    /\ err = "none"
    /\ Cardinality(DOMAIN pending) = 2
    /\ \E id \in FreeIds : id - 1 \in PendingIds /\ id + 1 \in PendingIds

\* the sum of the sizes of the spans of f
RECURSIVE SumOfSizes(_, _)
SumOfSizes(f, starts) ==
    IF starts = {} THEN 0
    ELSE LET s == CHOOSE x \in starts : TRUE
         IN  f.forwardMap[s] + SumOfSizes(f, starts \ {s})

\* the sum of the lengths of the buckets T of f
RECURSIVE SumOfBuckets(_, _)
SumOfBuckets(f, T) ==
    IF T = {} THEN 0
    ELSE LET t == CHOOSE x \in T : TRUE
         IN  Len(f.pending[t].ids) + SumOfBuckets(f, T \ {t})

\* C20: in every state count() is free_count plus the lengths of all pending
\* buckets and is the number of distinct ids that are free or pending,
\* free_count being the sum of the span sizes; release, for every list of
\* readers and every order of the buckets, changes neither count() nor the ids
\* write stores; and no bucket is empty after free, release or rollback return.
CountIsFreePlusPending ==
    err = "none" =>
        /\ count(cur) = freePagesCount + SumOfBuckets(cur, DOMAIN pending)
        /\ freePagesCount = SumOfSizes(cur, DOMAIN forwardMap)
        /\ freePagesCount = Cardinality(FreeIds)
        /\ count(cur) = Cardinality(FreeIds \cup PendingIds)
        /\ \A t \in DOMAIN pending : Len(pending[t].ids) >= 1
        /\ \A rtxids \in SUBSET Txids, order \in Orders(DOMAIN pending) :
               LET g == release(cur, rtxids, order)
               IN  /\ count(g) = count(cur)
                   /\ copyall(g) = copyall(cur)
                   /\ write(g, page) = write(cur, page)
                   /\ \A t \in DOMAIN g.pending : Len(g.pending[t].ids) >= 1

\* a bucket of two ids, one that reader 1 sees and one that it does not see,
\* beside free ids: release([1]) moves one id and leaves the bucket
CountWitness ==
    /\ err = "none"
    /\ FreeIds # {}
    /\ \E t \in DOMAIN pending : \E i, j \in EntriesOf(cur, t) :
           /\ Len(pending[t].ids) = 2
           /\ Visible(pending[t].alloctx[i], t, {1})
           /\ ~ Visible(pending[t].alloctx[j], t, {1})

====
